---------------------------- MODULE Spec2Model ----------------------------
(***************************************************************************)
(* Model of src/app.py: the COVID-19 dashboard.                            *)
(*                                                                         *)
(* load_data (lines 16-73) is a pure transform of three wide tables        *)
(* (confirmed, deaths, recovered) into one table of (region, date) rows.   *)
(* The render script (lines 76-129) derives views of the cached table.     *)
(*                                                                         *)
(* A wide table (pandas DataFrame) is [columns, rows]: `columns` is the    *)
(* sequence of column labels in file order, `rows` a sequence of functions *)
(* from the labels to cells.  A long table is a sequence of records.       *)
(* A numeric cell that may be missing (NaN) is a sequence of length <= 1.  *)
(* The returned table carries the group keys and the numeric columns; the  *)
(* text column Province/State, which .sum() concatenates, is left out.     *)
(***************************************************************************)
EXTENDS Integers, Sequences, FiniteSets

VARIABLES
    confirmed_df,      \* the three tables read at lines 20-22
    deaths_df,
    recovered_df,
    pc,                \* "fetched" | "loaded" | "failed" | "rendered" | "stopped"
    fault,             \* "none" | "KeyError" | "ValueError": what the call raised
    full_data,         \* load_data's local after line 64
    data,              \* the table returned by load_data (the cached value)
    selected_country,  \* the sidebar's select box
    show_raw,          \* the sidebar's check box
    view               \* what the last run of the script displayed

vars == <<confirmed_df, deaths_df, recovered_df, pc, fault, full_data, data,
          selected_country, show_raw, view>>

----------------------------------------------------------------------------
(* Generic helpers *)

Range(s) == {s[i] : i \in 1..Len(s)}

RECURSIVE SumSeq(_)
SumSeq(s) == IF s = << >> THEN 0 ELSE Head(s) + SumSeq(Tail(s))

RECURSIVE Flatten(_)
Flatten(ss) == IF ss = << >> THEN << >> ELSE Head(ss) \o Flatten(Tail(ss))

\* the elements of s at the indices in I, in the order of s
SelectAt(s, I) ==
    LET RECURSIVE Sel(_)
        Sel(i) == IF i > Len(s) THEN << >>
                  ELSE (IF i \in I THEN <<s[i]>> ELSE << >>) \o Sel(i + 1)
    IN Sel(1)

\* a missing numeric cell (NaN) and a present one
NA == << >>
Some(v) == <<v>>

----------------------------------------------------------------------------
(* Column labels *)

\* app.py:28 id_vars
IdCols == <<"Province/State", "Country/Region", "Lat", "Long">>

\* pd.to_datetime on one column label (app.py:46-48): the M/D/YY labels of
\* the source files become calendar dates, here the ordinal yyyymmdd;
\* any other label cannot be parsed.
Parseable(label) == label \in {"12/31/19", "1/1/20", "1/2/20"}

ParseDate(label) ==
    CASE label = "12/31/19" -> 20191231
      [] label = "1/1/20"   -> 20200101
      [] label = "1/2/20"   -> 20200102

\* the order of region names in the sorted group keys (string order)
RegionRank(cr) ==
    CASE cr = "China" -> 1
      [] cr = "India" -> 2
      [] cr = "Italy" -> 3


----------------------------------------------------------------------------
(* load_data, step by step *)

\* a slice that starts one column late: columns[5:]
DateColumnsFromSixth(df) == SubSeq(df.columns, 6, Len(df.columns))

\* app.py:26  dates = confirmed_df.columns[4:]  (positional)
DateColumns(df) == SubSeq(df.columns, 5, Len(df.columns))

\* DataFrame.melt raises KeyError when an id_vars or value_vars label is not
\* a column of the frame (app.py:27-44); other columns are left out silently.
MeltOk(df, value_vars) ==
    /\ Range(IdCols) \subseteq Range(df.columns)
    /\ Range(value_vars) \subseteq Range(df.columns)

\* DataFrame.melt (app.py:27-44): one long row per (value column, wide row),
\* value column by value column, the wide rows in their order.
Melt(df, value_vars) ==
    Flatten([j \in 1..Len(value_vars) |->
               [i \in 1..Len(df.rows) |->
                  [ps    |-> df.rows[i]["Province/State"],
                   cr    |-> df.rows[i]["Country/Region"],
                   Lat   |-> df.rows[i]["Lat"],
                   Long  |-> df.rows[i]["Long"],
                   Date  |-> value_vars[j],
                   Value |-> df.rows[i][value_vars[j]]]]])

\* pd.to_datetime over the Date column of a melted table (app.py:46-48):
\* raises when an element cannot be parsed; an empty column parses.
DatesParse(melted) == \A i \in 1..Len(melted) : Parseable(melted[i].Date)

ToDatetime(melted) ==
    [i \in 1..Len(melted) |-> [melted[i] EXCEPT !.Date = ParseDate(@)]]

\* a join on sub-region, region and date only
SameKeyWithoutPlace(a, b) ==
    /\ a.ps = b.ps
    /\ a.cr = b.cr
    /\ a.Date = b.Date

\* the join key of both merges (app.py:54, 60)
SameKey(a, b) ==
    /\ a.ps = b.ps
    /\ a.cr = b.cr
    /\ a.Date = b.Date
    /\ a.Lat = b.Lat
    /\ a.Long = b.Long

\* the right table's values that join one left row, in the right table's order
Matches(l, right) ==
    LET hit == SelectSeq(right, LAMBDA r : SameKey(l, r))
    IN [k \in 1..Len(hit) |-> Some(hit[k].Value)]

\* pd.merge(how='inner'): a left row that joins no right row is left out
InnerJoin(l, right) == Matches(l, right)

\* pd.merge(how='left'): every left row is kept, in order, once per matching
\* right row, or once with a missing value when no right row matches.
LeftJoin(l, right) ==
    IF Matches(l, right) = << >> THEN <<NA>> ELSE Matches(l, right)

\* app.py:51-56
MergeDeaths(confirmed_melted, deaths_melted) ==
    Flatten([i \in 1..Len(confirmed_melted) |->
        LET l == confirmed_melted[i]
            m == LeftJoin(l, deaths_melted)
        IN [k \in 1..Len(m) |->
              [ps |-> l.ps, cr |-> l.cr, Lat |-> l.Lat, Long |-> l.Long,
               Date |-> l.Date, Confirmed |-> l.Value, Deaths |-> m[k]]]])

\* app.py:57-62
MergeRecovered(merged, recovered_melted) ==
    Flatten([i \in 1..Len(merged) |->
        LET l == merged[i]
            m == LeftJoin(l, recovered_melted)
        IN [k \in 1..Len(m) |->
              [ps |-> l.ps, cr |-> l.cr, Lat |-> l.Lat, Long |-> l.Long,
               Date |-> l.Date, Confirmed |-> l.Confirmed,
               Deaths |-> l.Deaths, Recovered |-> m[k]]]])

\* app.py:64  fillna(0) on one cell
FillNa(cell) == IF cell = NA THEN 0 ELSE cell[1]

\* app.py:64 over the merged table.  The cells of the source tables are
\* always present, so Confirmed is never missing.
FillNaRows(merged) ==
    [i \in 1..Len(merged) |->
        [merged[i] EXCEPT !.Deaths = FillNa(@), !.Recovered = FillNa(@)]]

\* the merged table after line 64
FullData(c, d, r) ==
    LET dates == DateColumns(c)
        cm == ToDatetime(Melt(c, dates))
        dm == ToDatetime(Melt(d, dates))
        rm == ToDatetime(Melt(r, dates))
    IN FillNaRows(MergeRecovered(MergeDeaths(cm, dm), rm))

\* groupby sorts its group keys: region name, then date
KeyLess(a, b) ==
    \/ RegionRank(a[1]) < RegionRank(b[1])
    \/ a[1] = b[1] /\ a[2] < b[2]

RECURSIVE SortKeys(_)
SortKeys(S) ==
    IF S = {} THEN << >>
    ELSE LET m == CHOOSE x \in S : \A y \in S \ {x} : KeyLess(x, y)
         IN <<m>> \o SortKeys(S \ {m})

\* groupby(sort=False): the group keys in order of first appearance
GroupKeysUnsorted(full) ==
    LET keys == [i \in 1..Len(full) |-> <<full[i].cr, full[i].Date>>]
    IN SelectAt(keys, {i \in 1..Len(keys) :
                          /\ keys[i][1] # "NaN"
                          /\ \A j \in 1..(i - 1) : keys[j] # keys[i]})

\* the group keys of groupby(['Country/Region', 'Date']) in output order;
\* groupby leaves out the rows whose key is missing (dropna)
GroupKeys(full) ==
    SortKeys({<<full[i].cr, full[i].Date>> :
                i \in {j \in 1..Len(full) : full[j].cr # "NaN"}})

\* one column of a table, as a sequence
Column(rows, name) == [i \in 1..Len(rows) |-> rows[i][name]]

\* .first() in place of .sum(): the group's first row
GroupFirst(g) ==
    [cr        |-> g[1].cr,
     Date      |-> g[1].Date,
     Lat       |-> g[1].Lat,
     Long      |-> g[1].Long,
     Confirmed |-> g[1].Confirmed,
     Deaths    |-> g[1].Deaths,
     Recovered |-> g[1].Recovered]

\* the aggregate of one group (app.py:67 .sum())
GroupSum(g) ==
    [cr        |-> g[1].cr,
     Date      |-> g[1].Date,
     Lat       |-> SumSeq(Column(g, "Lat")),
     Long      |-> SumSeq(Column(g, "Long")),
     Confirmed |-> SumSeq(Column(g, "Confirmed")),
     Deaths    |-> SumSeq(Column(g, "Deaths")),
     Recovered |-> SumSeq(Column(g, "Recovered"))]

\* groupby(['Country/Region']) alone: one row per region, all dates summed
GroupByRegion(full) ==
    LET keys == GroupKeys(full)
        first == SelectAt(keys, {k \in 1..Len(keys) :
                                   \A j \in 1..(k - 1) : keys[j][1] # keys[k][1]})
    IN [k \in 1..Len(first) |->
          GroupSum(SelectSeq(full, LAMBDA x : x.cr = first[k][1]))]

\* app.py:67  groupby(['Country/Region', 'Date']).sum().reset_index()
GroupBy(full) ==
    LET keys == GroupKeys(full)
    IN [k \in 1..Len(keys) |->
          GroupSum(SelectSeq(full,
              LAMBDA x : x.cr = keys[k][1] /\ x.Date = keys[k][2]))]

\* active cases never shown below 0
ActiveClamped(row) ==
    IF row.Confirmed - row.Deaths - row.Recovered < 0 THEN 0
    ELSE row.Confirmed - row.Deaths - row.Recovered

\* app.py:70
Active(row) == row.Confirmed - row.Deaths - row.Recovered

\* data['Confirmed'].diff() without the groupby: the difference to the row
\* before, of whatever region
DiffUngrouped(rows, i) ==
    IF i = 1 THEN NA ELSE Some(rows[i].Confirmed - rows[i - 1].Confirmed)

\* app.py:71  groupby('Country/Region')['Confirmed'].diff() at row i: the
\* difference to the previous row of the same region in table order,
\* missing for the region's first row
Diff(rows, i) ==
    LET prev == {j \in 1..(i - 1) : rows[j].cr = rows[i].cr}
    IN IF prev = {} THEN NA
       ELSE Some(rows[i].Confirmed
                   - rows[CHOOSE j \in prev : \A k \in prev : k <= j].Confirmed)

\* app.py:70-71
Derive(rows) ==
    [i \in 1..Len(rows) |->
        [cr        |-> rows[i].cr,
         Date      |-> rows[i].Date,
         Lat       |-> rows[i].Lat,
         Long      |-> rows[i].Long,
         Confirmed |-> rows[i].Confirmed,
         Deaths    |-> rows[i].Deaths,
         Recovered |-> rows[i].Recovered,
         Active    |-> Active(rows[i]),
         NewCases  |-> FillNa(Diff(rows, i))]]

\* a load that checks the three tables have the same columns
LoadFaultStrict(c, d, r) ==
    LET dates == DateColumns(c)
    IN IF ~(MeltOk(c, dates) /\ MeltOk(d, dates) /\ MeltOk(r, dates))
            \/ Range(d.columns) # Range(c.columns)
            \/ Range(r.columns) # Range(c.columns)
       THEN "KeyError"
       ELSE IF ~(DatesParse(Melt(c, dates)) /\ DatesParse(Melt(d, dates))
                   /\ DatesParse(Melt(r, dates)))
       THEN "ValueError"
       ELSE "none"

\* what load_data raises (app.py:27-48), "none" when it returns
LoadFault(c, d, r) ==
    LET dates == DateColumns(c)
    IN IF ~(MeltOk(c, dates) /\ MeltOk(d, dates) /\ MeltOk(r, dates))
       THEN "KeyError"
       ELSE IF ~(DatesParse(Melt(c, dates)) /\ DatesParse(Melt(d, dates))
                   /\ DatesParse(Melt(r, dates)))
       THEN "ValueError"
       ELSE "none"

\* the table load_data returns (app.py:73)
CountryData(c, d, r) == Derive(GroupBy(FullData(c, d, r)))


----------------------------------------------------------------------------
(* Input tables *)

MaxRows == 2       \* rows of a confirmed table
MaxSideRows == 2   \* rows of a deaths table and a recovered table together

\* a missing text cell
NaN == "NaN"

\* row identities: (sub-region, region, latitude, longitude)
India   == [ps |-> NaN,       cr |-> "India", Lat |-> 20, Long |-> 78]
Hubei   == [ps |-> "Hubei",   cr |-> "China", Lat |-> 30, Long |-> 112]
Beijing == [ps |-> "Beijing", cr |-> "China", Lat |-> 40, Long |-> 116]
\* Hubei with a revised latitude
HubeiMoved == [ps |-> "Hubei", cr |-> "China", Lat |-> 31, Long |-> 112]
\* a row without a region
Unknown == [ps |-> "Diamond Princess", cr |-> NaN, Lat |-> 0, Long |-> 0]

\* the counts of the cells of the aggregation inputs
Counts == {0, 1}

\* two date columns, in date order and against it
TwoDateOrders == {<<"12/31/19", "1/1/20">>, <<"1/1/20", "12/31/19">>}

\* three date columns, the earliest date last
ThreeDates == <<"1/1/20", "1/2/20", "12/31/19">>

\* one wide row with the given identity and per-column values
MkRow(columns, key, vals) ==
    [c \in Range(columns) |->
        CASE c = "Province/State" -> key.ps
          [] c = "Country/Region" -> key.cr
          [] c = "Lat"            -> key.Lat
          [] c = "Long"           -> key.Long
          [] OTHER                -> vals[c]]

ValueColumns(columns) == Range(columns) \ Range(IdCols)

SeqsUpTo(S, n) == UNION {[1..m -> S] : m \in 0..n}

\* every table of at most n rows with these columns, identities and cells
Tables(columns, keys, valfns, n) ==
    {[columns |-> columns, rows |-> rs] :
        rs \in SeqsUpTo({MkRow(columns, k, v) : k \in keys, v \in valfns}, n)}

\* a deaths or recovered cell written from the confirmed cell of its row
SideCell(mode, v) ==
    CASE mode = "zero" -> 0
      [] mode = "same" -> v
      [] mode = "more" -> v + 1

\* the table with the rows and row keys of c, its cells written by `mode`
SideLike(c, mode) ==
    [columns |-> c.columns,
     rows |-> [i \in 1..Len(c.rows) |->
                [col \in Range(c.columns) |->
                    IF col \in Range(IdCols) THEN c.rows[i][col]
                    ELSE SideCell(mode, c.rows[i][col])]]]

\* Aggregation inputs: any confirmed table of up to MaxRows rows over three
\* identities and both orders of two date columns, with deaths and
\* recovered tables of the same row keys.
SideModes ==
    {<<"zero", "zero">>, <<"same", "zero">>, <<"zero", "more">>,
     <<"same", "more">>}

FamAgg(c, d, r) ==
    \E dates \in TwoDateOrders, m \in SideModes :
        /\ c \in Tables(IdCols \o dates, {India, Hubei, Beijing},
                        [Range(dates) -> Counts], MaxRows)
        /\ d = SideLike(c, m[1])
        /\ r = SideLike(c, m[2])

\* Time series inputs: the same over three date columns and two regions.
FamDates(c, d, r) ==
    \E m \in SideModes :
        /\ c \in Tables(IdCols \o ThreeDates, {India, Hubei},
                        [Range(ThreeDates) -> Counts], MaxRows)
        /\ d = SideLike(c, m[1])
        /\ r = SideLike(c, m[2])

\* Join inputs: deaths and recovered tables whose row keys are missing,
\* extra, moved or repeated with respect to the confirmed table.
JoinColumns == IdCols \o <<"1/1/20", "1/2/20">>

SideTables(n) ==
    Tables(JoinColumns, {India, Hubei, HubeiMoved},
           {[c \in ValueColumns(JoinColumns) |-> v] : v \in {1, 2}}, n)

FamJoin(c, d, r) ==
    /\ c \in Tables(JoinColumns, {Hubei, Beijing, Unknown},
                    {[col \in ValueColumns(JoinColumns) |-> 1]}, MaxRows)
    /\ d \in SideTables(MaxSideRows)
    /\ r \in SideTables(MaxSideRows - Len(d.rows))

\* The example of the specification: two sub-regions of one region, their
\* counts on two dates among 2, 3, 5 and 7; no deaths, nobody recovered.
FamExample(c, d, r) ==
    \E dates \in TwoDateOrders, keys \in {<<Hubei, Beijing>>, <<Beijing, Hubei>>} :
        /\ \E v1, v2 \in [Range(dates) -> {2, 3, 5, 7}] :
             c = [columns |-> IdCols \o dates,
                  rows |-> <<MkRow(IdCols \o dates, keys[1], v1),
                             MkRow(IdCols \o dates, keys[2], v2)>>]
        /\ d = SideLike(c, "zero")
        /\ r = SideLike(c, "zero")

\* Schema inputs: each table has its own columns: a date column less or
\* more, an identifier column less, a label that is no date.
Schemas ==
    {IdCols \o <<"1/1/20", "1/2/20">>,
     IdCols \o <<"1/1/20">>,
     IdCols \o <<"1/1/20", "1/2/20", "12/31/19">>,
     <<"Province/State", "Country/Region", "Lat", "1/1/20", "1/2/20">>,
     IdCols \o <<"1/1/20", "13/1/20">>,
     IdCols \o <<"1/1/20", "1/2/20", "Population">>}

SchemaTables ==
    UNION {Tables(columns, {India}, {[c \in ValueColumns(columns) |-> 1]}, 1) :
             columns \in Schemas}

FamSchema(c, d, r) ==
    /\ c \in SchemaTables
    /\ d \in SchemaTables
    /\ r \in SchemaTables

NoTable == << >>

InitETL ==
    /\ \/ FamAgg(confirmed_df, deaths_df, recovered_df)
       \/ FamDates(confirmed_df, deaths_df, recovered_df)
       \/ FamJoin(confirmed_df, deaths_df, recovered_df)
       \/ FamExample(confirmed_df, deaths_df, recovered_df)
       \/ FamSchema(confirmed_df, deaths_df, recovered_df)
    /\ pc = "fetched"
    /\ fault = "none"
    /\ full_data = NoTable
    /\ data = NoTable
    /\ selected_country = "India"
    /\ show_raw = FALSE
    /\ view = NoTable

\* one call of load_data on a cache miss (app.py:16-73, called at line 76)
load_data ==
    /\ pc = "fetched"
    /\ fault' = LoadFault(confirmed_df, deaths_df, recovered_df)
    /\ IF fault' = "none"
       THEN /\ full_data' = FullData(confirmed_df, deaths_df, recovered_df)
            /\ data' = CountryData(confirmed_df, deaths_df, recovered_df)
            /\ pc' = "loaded"
       ELSE /\ UNCHANGED <<full_data, data>>
            /\ pc' = "failed"
    /\ UNCHANGED <<confirmed_df, deaths_df, recovered_df, selected_country,
                   show_raw, view>>

SpecETL == InitETL /\ [][load_data]_vars

----------------------------------------------------------------------------
(* The render script (app.py:76-129) *)

\* app.py:117  rolling(window=14)
Window == 14

\* app.py:80  data['Country/Region'].unique(): in order of first appearance
CountryList(table) ==
    SelectAt([i \in 1..Len(table) |-> table[i].cr],
             {i \in 1..Len(table) : \A j \in 1..(i - 1) : table[j].cr # table[i].cr})

\* app.py:84  data[data['Country/Region'] == selected_country]
CountryRows(table, country) == SelectSeq(table, LAMBDA x : x.cr = country)

\* app.py:90  country_df[country_df['Date'] == country_df['Date'].max()]
LatestRows(country_df) ==
    SelectSeq(country_df,
              LAMBDA x : \A i \in 1..Len(country_df) : country_df[i].Date <= x.Date)

\* app.py:92-95  the four tiles, from the first of the latest rows
Metrics(latest_data) ==
    [Confirmed |-> latest_data[1].Confirmed,
     Deaths    |-> latest_data[1].Deaths,
     Recovered |-> latest_data[1].Recovered,
     Active    |-> latest_data[1].Active]

\* app.py:117  rolling(window=14).mean(): missing until the window is full,
\* then the window's sum over Window, kept as <<sum, Window>>
RollingMean(country_df) ==
    [i \in 1..Len(country_df) |->
        IF i < Window THEN NA
        ELSE Some(<<SumSeq([k \in 1..Window |->
                              country_df[i - Window + k].NewCases]), Window>>)]

\* app.py:129  sort_values('Date', ascending=False): a sorted copy
RECURSIVE SortDateDesc(_)
SortDateDesc(rows) ==
    IF rows = << >> THEN << >>
    ELSE LET i == CHOOSE i \in 1..Len(rows) :
                    /\ \A j \in 1..Len(rows) : rows[j].Date <= rows[i].Date
                    /\ \A j \in 1..(i - 1) : rows[j].Date < rows[i].Date
         IN <<rows[i]>> \o SortDateDesc(SelectAt(rows, (1..Len(rows)) \ {i}))

\* what one run of the script displays (app.py:84-129)
Display(table, country, raw) ==
    LET country_df == CountryRows(table, country)
    IN [country_df |-> country_df,
        metrics    |-> Metrics(LatestRows(country_df)),
        rolling    |-> RollingMean(country_df),
        raw_table  |-> IF raw THEN SortDateDesc(country_df) ELSE << >>]

\* sort_values(inplace=True) on the cached table when the raw table is shown
DataSortedInPlace(table, country, raw) ==
    IF raw THEN SortDateDesc(table) ELSE table

\* the cached table after a run of the script: lines 80-129 filter, select,
\* average and sort copies; no statement assigns to the table or its columns
DataAfterRun(table, country, raw) == table

\* The tables the page's source may serve
PageFetch(c, d, r) ==
    \/ /\ c \in Tables(JoinColumns, {India, Hubei, Beijing},
                       {[col \in ValueColumns(JoinColumns) |->
                            IF col = "1/1/20" THEN 2 ELSE 1]}, MaxRows)
       /\ \E m \in SideModes : d = SideLike(c, m[1]) /\ r = SideLike(c, m[2])
    \/ /\ c = [columns |-> IdCols \o <<"1/1/20">>,
               rows |-> <<MkRow(IdCols \o <<"1/1/20">>, India,
                                [col \in {"1/1/20"} |-> 1])>>]
       /\ d = [columns |-> IdCols, rows |-> << >>]
       /\ r = d

Init ==
    /\ PageFetch(confirmed_df, deaths_df, recovered_df)
    /\ pc = "fetched"
    /\ fault = "none"
    /\ full_data = NoTable
    /\ data = NoTable
    /\ selected_country = "India"
    /\ show_raw = FALSE
    /\ view = NoTable

\* One run of the script (app.py:76-129): the first, or a rerun after the
\* user picked `country` in the select box or set the check box to `raw`.
\* load_data() at line 76 computes on a cache miss and returns the cached
\* table on a hit.  Line 81 raises when "India" is not in the table.
Run(country, raw) ==
    LET miss == pc \in {"fetched", "failed"}
        f == IF miss THEN LoadFault(confirmed_df, deaths_df, recovered_df)
             ELSE "none"
        table == IF miss
                 THEN CountryData(confirmed_df, deaths_df, recovered_df)
                 ELSE data
    IN /\ miss => country = "India" /\ raw = FALSE
       /\ fault' = f
       /\ IF f # "none"
          THEN /\ pc' = "failed"
               /\ UNCHANGED <<full_data, data, selected_country, show_raw, view>>
          ELSE /\ full_data' = IF miss
                               THEN FullData(confirmed_df, deaths_df, recovered_df)
                               ELSE full_data
               /\ IF "India" \notin Range(CountryList(table))
                  THEN /\ pc' = "stopped"
                       /\ data' = table
                       /\ UNCHANGED <<selected_country, show_raw, view>>
                  ELSE /\ country \in Range(CountryList(table))
                       /\ pc' = "rendered"
                       /\ selected_country' = country
                       /\ show_raw' = raw
                       /\ view' = Display(table, country, raw)
                       /\ data' = DataAfterRun(table, country, raw)
       /\ UNCHANGED <<confirmed_df, deaths_df, recovered_df>>

\* The cache is cleared (the framework's menu, or a restart of the process);
\* the source may serve other tables by the next run.
ClearCache ==
    /\ pc # "fetched"
    /\ PageFetch(confirmed_df', deaths_df', recovered_df')
    /\ pc' = "fetched"
    /\ fault' = "none"
    /\ full_data' = NoTable
    /\ data' = NoTable
    /\ selected_country' = "India"
    /\ show_raw' = FALSE
    /\ view' = NoTable

Next ==
    \/ \E country \in {"China", "India"}, raw \in BOOLEAN : Run(country, raw)
    \/ ClearCache

Spec == Init /\ [][Next]_vars

----------------------------------------------------------------------------
(* What the properties below read off the three input tables *)

Loaded == pc = "loaded"

RowKey(row) ==
    <<row["Province/State"], row["Country/Region"], row["Lat"], row["Long"]>>

KeysOf(df) == {RowKey(df.rows[i]) : i \in 1..Len(df.rows)}

UniqueKeys(df) ==
    \A i, j \in 1..Len(df.rows) : RowKey(df.rows[i]) = RowKey(df.rows[j]) => i = j

HasIdCols(df) == Range(IdCols) \subseteq Range(df.columns)

\* the three tables have the identifier columns and the same date columns,
\* every one a date
AlignedColumns ==
    /\ \A df \in {confirmed_df, deaths_df, recovered_df} :
         /\ HasIdCols(df)
         /\ ValueColumns(df.columns) = ValueColumns(confirmed_df.columns)
    /\ \A label \in ValueColumns(confirmed_df.columns) : Parseable(label)

\* the regions of the confirmed table
Regions == {confirmed_df.rows[i]["Country/Region"] :
              i \in 1..Len(confirmed_df.rows)} \ {NaN}

\* the sum of one column of a source table over the rows of a region
SourceSum(df, region, label) ==
    SumSeq(Column(SelectSeq(df.rows, LAMBDA x : x["Country/Region"] = region),
                  label))

OutRows(region, date) ==
    {i \in 1..Len(data) : data[i].cr = region /\ data[i].Date = date}

----------------------------------------------------------------------------
(* C1 *)

\* C1: the table returned by load_data has exactly one row for each pair of
\* a region of the confirmed table and one of its date columns, and no
\* other row; every region has as many rows as there are date columns.
C1_OneRowPerRegionDate ==
    (Loaded /\ Regions # {}) =>
        LET labels == ValueColumns(confirmed_df.columns)
            dates == {ParseDate(l) : l \in labels}
        IN /\ \A i \in 1..Len(data) :
                data[i].cr \in Regions /\ data[i].Date \in dates
           /\ \A region \in Regions, date \in dates :
                Cardinality(OutRows(region, date)) = 1
           /\ \A region \in Regions :
                Cardinality({i \in 1..Len(data) : data[i].cr = region})
                    = Cardinality(labels)

\* a region of two sub-regions, a deaths table that repeats a row key or
\* lacks one
C1_Witness ==
    /\ Loaded
    /\ \E i, j \in 1..Len(confirmed_df.rows) :
         /\ i # j
         /\ confirmed_df.rows[i]["Country/Region"] = "China"
         /\ confirmed_df.rows[j]["Country/Region"] = "China"
         /\ confirmed_df.rows[i]["Province/State"]
              # confirmed_df.rows[j]["Province/State"]
    /\ ~UniqueKeys(deaths_df)
    /\ KeysOf(confirmed_df) \ KeysOf(deaths_df) # {}
    /\ Len(data) = 2

----------------------------------------------------------------------------
(* C2 *)

\* the three tables have the same date columns and the same row keys, each
\* key once in each table
AlignedInputs ==
    /\ \A df \in {confirmed_df, deaths_df, recovered_df} : HasIdCols(df)
    /\ UniqueKeys(confirmed_df)
    /\ \A df \in {deaths_df, recovered_df} :
         /\ ValueColumns(df.columns) = ValueColumns(confirmed_df.columns)
         /\ KeysOf(df) = KeysOf(confirmed_df)
         /\ UniqueKeys(df)

\* C2: on aligned inputs every output row (region, date) carries, for each
\* of Confirmed, Deaths and Recovered, the sum of that metric's source
\* column of that date over the rows of the region.
C2_SumsOverSubRegions ==
    (Loaded /\ AlignedInputs) =>
        \A i \in 1..Len(data) :
            \A label \in ValueColumns(confirmed_df.columns) :
                ParseDate(label) = data[i].Date =>
                    /\ data[i].Confirmed = SourceSum(confirmed_df, data[i].cr, label)
                    /\ data[i].Deaths = SourceSum(deaths_df, data[i].cr, label)
                    /\ data[i].Recovered = SourceSum(recovered_df, data[i].cr, label)

\* two sub-regions of China whose deaths add up on one date
C2_Witness ==
    /\ Loaded
    /\ AlignedInputs
    /\ {"Hubei", "Beijing"} \subseteq
          {confirmed_df.rows[i]["Province/State"] : i \in 1..Len(confirmed_df.rows)}
    /\ \E i \in 1..Len(data) :
          /\ data[i].cr = "China"
          /\ data[i].Deaths = 2
          /\ data[i].Confirmed = 2
          /\ data[i].Recovered = 4

----------------------------------------------------------------------------
(* C3 *)

\* the rows of the merged table that come from the confirmed row of
\* identity `key` on the date of column `label`
MergedRows(key, label) ==
    {i \in 1..Len(full_data) :
        /\ <<full_data[i].ps, full_data[i].cr, full_data[i].Lat, full_data[i].Long>> = key
        /\ full_data[i].Date = ParseDate(label)}

\* the sum of one metric over the merged rows of a region and date that do
\* not have the identity `key`
SumOfOthers(key, label, metric) ==
    SumSeq(Column(SelectSeq(full_data,
                            LAMBDA x : /\ x.cr = key[2]
                                       /\ x.Date = ParseDate(label)
                                       /\ <<x.ps, x.cr, x.Lat, x.Long>> # key),
                  metric))

\* C3: a confirmed row whose identity has no row in the deaths table
\* (recovered table) is kept by the merge with Deaths (Recovered) 0, the
\* call raises nothing, and the region's total of that date counts it as 0.
C3_UnmatchedRowsZeroFilled ==
    (pc # "fetched" /\ AlignedColumns) =>
        /\ Loaded
        /\ \A key \in KeysOf(confirmed_df), label \in ValueColumns(confirmed_df.columns) :
             /\ MergedRows(key, label) # {}
             /\ key \notin KeysOf(deaths_df) =>
                  /\ \A i \in MergedRows(key, label) : full_data[i].Deaths = 0
                  /\ \A j \in 1..Len(data) :
                       (data[j].cr = key[2] /\ data[j].Date = ParseDate(label)) =>
                          data[j].Deaths
                            = SumOfOthers(key, label, "Deaths")
             /\ key \notin KeysOf(recovered_df) =>
                  /\ \A i \in MergedRows(key, label) : full_data[i].Recovered = 0
                  /\ \A j \in 1..Len(data) :
                       (data[j].cr = key[2] /\ data[j].Date = ParseDate(label)) =>
                          data[j].Recovered
                            = SumOfOthers(key, label, "Recovered")

\* Beijing is in the confirmed table and in neither other table; Hubei is in
\* the deaths table under a revised latitude only; China's deaths are 0
C3_Witness ==
    /\ Loaded
    /\ {<<"Hubei", "China", 30, 112>>, <<"Beijing", "China", 40, 116>>}
          = KeysOf(confirmed_df)
    /\ KeysOf(deaths_df) = {<<"Hubei", "China", 31, 112>>}
    /\ KeysOf(recovered_df) = {<<"Hubei", "China", 30, 112>>}
    /\ \A i \in 1..Len(data) : data[i].Deaths = 0 /\ data[i].Recovered > 0
    /\ Len(full_data) = 4

----------------------------------------------------------------------------
(* C4 *)

\* C4: in every row of the returned table Active is Confirmed minus Deaths
\* minus Recovered, also when that is negative.
C4_ActiveExact ==
    Loaded =>
        \A i \in 1..Len(data) :
            data[i].Active = data[i].Confirmed - data[i].Deaths - data[i].Recovered

\* a row with more deaths and recoveries than confirmed cases
C4_Witness ==
    /\ Loaded
    /\ \E i \in 1..Len(data) :
         /\ data[i].Deaths + data[i].Recovered > data[i].Confirmed
         /\ data[i].Active < 0

----------------------------------------------------------------------------
(* C5 *)

EarliestOfRegion(i) ==
    \A j \in 1..Len(data) : data[j].cr = data[i].cr => data[i].Date <= data[j].Date

\* C5: the row of a region with the region's earliest date has New Cases 0.
C5_FirstDateZero ==
    Loaded => \A i \in 1..Len(data) : EarliestOfRegion(i) => data[i].NewCases = 0

\* the earliest row of the second region: its count is positive and differs
\* from the count of the row before it, whose New Cases is not 0
C5_Witness ==
    /\ Loaded
    /\ \E i \in 2..Len(data) :
         /\ EarliestOfRegion(i)
         /\ data[i - 1].cr # data[i].cr
         /\ data[i].Confirmed > 0
         /\ data[i].Confirmed # data[i - 1].Confirmed
         /\ data[i - 1].NewCases # 0

----------------------------------------------------------------------------
(* C6 *)

\* the dates of the region of row i that lie before the date of row i
EarlierDates(i) ==
    {data[j].Date : j \in {k \in 1..Len(data) :
                             /\ data[k].cr = data[i].cr
                             /\ data[k].Date < data[i].Date}}

\* C6: on every date of a region but its earliest, New Cases is the
\* region's Confirmed of that date minus its Confirmed of the preceding
\* date, negative or not, whatever the order of the input rows and columns.
C6_NewCasesIsDailyDifference ==
    Loaded =>
        \A i \in 1..Len(data) :
            EarlierDates(i) # {} =>
                LET before == CHOOSE t \in EarlierDates(i) :
                                  \A u \in EarlierDates(i) : u <= t
                IN /\ OutRows(data[i].cr, before) # {}
                   /\ \A j \in OutRows(data[i].cr, before) :
                        data[i].NewCases = data[i].Confirmed - data[j].Confirmed

\* three date columns with the earliest date last, India's row before
\* China's; China's count decreases, and India's New Cases on the last date
\* is not its increase since the first date
C6_Witness ==
    /\ Loaded
    /\ DateColumns(confirmed_df) = ThreeDates
    /\ Len(confirmed_df.rows) = 2
    /\ confirmed_df.rows[1]["Country/Region"] = "India"
    /\ confirmed_df.rows[2]["Country/Region"] = "China"
    /\ \E i \in 1..Len(data) : data[i].cr = "China" /\ data[i].NewCases < 0
    /\ \E i, j \in 1..Len(data) :
         /\ data[i].cr = "India" /\ data[j].cr = "India"
         /\ data[i].Date = 20200102 /\ data[j].Date = 20191231
         /\ data[i].NewCases > 0
         /\ data[i].NewCases # data[i].Confirmed - data[j].Confirmed

----------------------------------------------------------------------------
(* C8 *)

\* the confirmed table is two sub-regions of one region, with counts 5 then
\* 7 and 2 then 3 on the two dates
ExampleInput ==
    /\ Len(confirmed_df.rows) = 2
    /\ ValueColumns(confirmed_df.columns) = {"12/31/19", "1/1/20"}
    /\ confirmed_df.rows[1]["Country/Region"] = confirmed_df.rows[2]["Country/Region"]
    /\ confirmed_df.rows[1]["Province/State"] # confirmed_df.rows[2]["Province/State"]
    /\ \E i, j \in 1..2 :
         /\ i # j
         /\ confirmed_df.rows[i]["12/31/19"] = 5
         /\ confirmed_df.rows[i]["1/1/20"] = 7
         /\ confirmed_df.rows[j]["12/31/19"] = 2
         /\ confirmed_df.rows[j]["1/1/20"] = 3

\* C8 as stated: on the example the region's Confirmed is 9 on one of the
\* two dates.
C8_ExampleSumIsNine ==
    (Loaded /\ ExampleInput) => \E i \in 1..Len(data) : data[i].Confirmed = 9

\* C8, amended: on the example the region's Confirmed is 7 on the first
\* date and 10 on the second.
C8_ExampleSums ==
    (Loaded /\ ExampleInput) =>
        /\ Len(data) = 2
        /\ data[1].Date = 20191231 /\ data[1].Confirmed = 7
        /\ data[2].Date = 20200101 /\ data[2].Confirmed = 10

C8_Witness ==
    /\ Loaded
    /\ ExampleInput
    /\ DateColumns(confirmed_df) = <<"1/1/20", "12/31/19">>
    /\ data[2].NewCases = 3

----------------------------------------------------------------------------
(* C7 *)

\* an identifier column is missing from one of the tables
IdColumnMissing ==
    \E df \in {confirmed_df, deaths_df, recovered_df} : ~HasIdCols(df)

\* the deaths or the recovered table lacks a date column of the confirmed
\* table
DateColumnLacking ==
    \E df \in {deaths_df, recovered_df} :
        ValueColumns(confirmed_df.columns) \ ValueColumns(df.columns) # {}

\* the deaths or the recovered table has a date column the confirmed table
\* lacks
DateColumnExtra ==
    \E df \in {deaths_df, recovered_df} :
        ValueColumns(df.columns) \ ValueColumns(confirmed_df.columns) # {}

\* a date column of the confirmed table has a label that is no date
LabelUnparseable ==
    \E label \in ValueColumns(confirmed_df.columns) : ~Parseable(label)

SomeRow ==
    \E df \in {confirmed_df, deaths_df, recovered_df} : df.rows # << >>

EveryTableHasRows ==
    \A df \in {confirmed_df, deaths_df, recovered_df} : df.rows # << >>

\* C7 as stated, for tables that have rows: a call on tables whose schemas
\* disagree, or with a date label that cannot be parsed, raises and returns
\* no table.
C7_AnyMismatchRaises ==
    (pc # "fetched" /\ EveryTableHasRows
       /\ (IdColumnMissing \/ DateColumnLacking \/ DateColumnExtra
             \/ LabelUnparseable))
    => (pc = "failed" /\ fault # "none" /\ data = NoTable)

\* C7, amended: the call raises, and returns no table, exactly when an
\* identifier column is missing, or the deaths or recovered table lacks a
\* date column of the confirmed table, or a date label of the confirmed
\* table cannot be parsed and some table has a row.  A date column that only
\* the deaths or recovered table has is left out silently; otherwise the
\* call returns the whole table.
C7_RaisesOrReturnsWhole ==
    pc # "fetched" =>
        IF IdColumnMissing \/ DateColumnLacking \/ (LabelUnparseable /\ SomeRow)
        THEN pc = "failed" /\ fault # "none" /\ data = NoTable /\ full_data = NoTable
        ELSE /\ pc = "loaded" /\ fault = "none"
             /\ Len(data) = Cardinality(Regions)
                              * Cardinality(ValueColumns(confirmed_df.columns))

\* a deaths table with one date column more than the confirmed table: the
\* call returns India's two rows
C7_Witness ==
    /\ Loaded
    /\ DateColumnExtra
    /\ ~DateColumnLacking
    /\ Len(data) = 2

----------------------------------------------------------------------------
(* C10 *)

\* a table of no rows with the columns of df
EmptyLike(df) == [columns |-> df.columns, rows |-> << >>]

\* the Confirmed and New Cases columns of a returned table, with their keys
ConfirmedColumns(table) ==
    [i \in 1..Len(table) |->
        <<table[i].cr, table[i].Date, table[i].Confirmed, table[i].NewCases>>]

SameDateColumns ==
    \A df \in {deaths_df, recovered_df} :
        /\ HasIdCols(df)
        /\ ValueColumns(df.columns) = ValueColumns(confirmed_df.columns)

\* what the confirmed table alone gives: the call with deaths and recovered
\* tables of no rows
ConfirmedAlone ==
    ConfirmedColumns(CountryData(confirmed_df, EmptyLike(deaths_df),
                                 EmptyLike(recovered_df)))

\* C10 as stated, for a confirmed table that repeats no row key: every
\* deaths and recovered table of the same date columns gives the same
\* Confirmed and New Cases.
C10_ConfirmedIndependentOfOthers ==
    (Loaded /\ SameDateColumns /\ UniqueKeys(confirmed_df))
        => ConfirmedColumns(data) = ConfirmedAlone

\* C10, amended: ... every deaths and recovered table of the same date
\* columns in which no row key is repeated (row keys may be missing or
\* extra) gives the same Confirmed and New Cases.
C10_IndependentWhenKeysUnique ==
    (Loaded /\ SameDateColumns /\ UniqueKeys(deaths_df) /\ UniqueKeys(recovered_df))
        => ConfirmedColumns(data) = ConfirmedAlone

\* the deaths table lacks Beijing and has India; the recovered table has
\* no row
C10_Witness ==
    /\ Loaded
    /\ SameDateColumns
    /\ KeysOf(confirmed_df) = {<<"Hubei", "China", 30, 112>>, <<"Beijing", "China", 40, 116>>}
    /\ KeysOf(deaths_df) = {<<"Hubei", "China", 30, 112>>, <<NaN, "India", 20, 78>>}
    /\ KeysOf(recovered_df) = {}
    /\ UniqueKeys(deaths_df)
    /\ \E i \in 1..Len(data) : data[i].Deaths > 0

----------------------------------------------------------------------------
(* C9 *)

CacheFilled == pc \in {"rendered", "stopped"}

\* C9: a run of the script on a filled cache leaves the cached table as it
\* is, whatever the user picked; the table changes only when the cache is
\* cleared, and the run after that rebuilds it whole from the three tables.
C9_CachedTableImmutable ==
    [][/\ (CacheFilled /\ CacheFilled') => data' = data
       /\ data' # data =>
            \/ pc' = "fetched" /\ data' = NoTable
            \/ /\ ~CacheFilled
               /\ data' = CountryData(confirmed_df', deaths_df', recovered_df')]_vars

\* a rerun showed China's raw rows, latest date first, from a table of two
\* regions
C9_Witness ==
    /\ pc = "rendered"
    /\ show_raw
    /\ selected_country = "China"
    /\ Len(data) = 4
    /\ Len(view.raw_table) = 2
    /\ view.raw_table # view.country_df
    /\ view.metrics.Confirmed = 1

============================================================================
